---- MODULE Spec2Model ----
(***************************************************************************)
(* Model of cray/modules/cfs/cli.py: the patch phase that rewrites the     *)
(* generated cfs command tree, and the three payload shims bound by it     *)
(* (configurations update, sessions create, components update).            *)
(***************************************************************************)
EXTENDS Integers, Sequences, FiniteSets, TLC

(***************************************************************************)
(* Python values.  Every value is a record [t, v]: t is the Python type,   *)
(* v its content.  A str is a sequence of symbols (characters, or the      *)
(* lexemes of a JSON text), so that splitting, trimming and parsing work   *)
(* on its content.                                                         *)
(***************************************************************************)
PyNone == [t |-> "None", v |-> <<>>]

PyStr(s) == [t |-> "str", v |-> s]

PyBool(b) == [t |-> "bool", v |-> b]

PyList(s) == [t |-> "list", v |-> s]

PyDict(f) == [t |-> "dict", v |-> f]

EmptyDict == <<>>

\* Python truth value of a value: None, False, '', [] and {} are false.
Truthy(x) ==
    CASE x.t = "None" -> FALSE
      [] x.t = "bool" -> x.v
      [] x.t = "str"  -> Len(x.v) > 0
      [] x.t = "list" -> Len(x.v) > 0
      [] x.t = "dict" -> DOMAIN x.v # {}

\* d[k] = val on a dict content d (a later assignment overrides an earlier one).
DictSet(d, k, val) == [x \in (DOMAIN d) \cup {k} |-> IF x = k THEN val ELSE d[x]]

(***************************************************************************)
(* json.loads on a text given as its sequence of lexemes.                  *)
(***************************************************************************)
StrLexemes == {"\"layers\""}

Unquote(tok) == CASE tok = "\"layers\"" -> "layers"

JsonLexemes == {"{", "}", "[", "]", ":", ","} \cup StrLexemes

JsonFail(i) == [ok |-> FALSE, val |-> PyNone, next |-> i]

JsonOk(val, i) == [ok |-> TRUE, val |-> val, next |-> i]

RECURSIVE ParseValue(_, _)
RECURSIVE ParseElements(_, _, _)
RECURSIVE ParseMembers(_, _, _)

\* The elements of an array after "[", up to and including the closing "]".
ParseElements(toks, i, acc) ==
    LET r == ParseValue(toks, i) IN
    IF ~r.ok THEN JsonFail(i)
    ELSE IF r.next > Len(toks) THEN JsonFail(r.next)
    ELSE IF toks[r.next] = "," THEN ParseElements(toks, r.next + 1, Append(acc, r.val))
    ELSE IF toks[r.next] = "]" THEN JsonOk(PyList(Append(acc, r.val)), r.next + 1)
    ELSE JsonFail(r.next)

\* The members of an object after "{", up to and including the closing "}".
ParseMembers(toks, i, acc) ==
    IF i + 1 > Len(toks) THEN JsonFail(i)
    ELSE IF toks[i] \notin StrLexemes \/ toks[i + 1] # ":" THEN JsonFail(i)
    ELSE LET r == ParseValue(toks, i + 2)
             d == DictSet(acc, Unquote(toks[i]), r.val) IN
         IF ~r.ok THEN JsonFail(i)
         ELSE IF r.next > Len(toks) THEN JsonFail(r.next)
         ELSE IF toks[r.next] = "," THEN ParseMembers(toks, r.next + 1, d)
         ELSE IF toks[r.next] = "}" THEN JsonOk(PyDict(d), r.next + 1)
         ELSE JsonFail(r.next)

ParseValue(toks, i) ==
    IF i > Len(toks) THEN JsonFail(i)
    ELSE IF toks[i] \in StrLexemes THEN JsonOk(PyStr(<<Unquote(toks[i])>>), i + 1)
    ELSE IF toks[i] = "[" THEN
        IF i + 1 <= Len(toks) /\ toks[i + 1] = "]"
        THEN JsonOk(PyList(<<>>), i + 2)
        ELSE ParseElements(toks, i + 1, <<>>)
    ELSE IF toks[i] = "{" THEN
        IF i + 1 <= Len(toks) /\ toks[i + 1] = "}"
        THEN JsonOk(PyDict(EmptyDict), i + 2)
        ELSE ParseMembers(toks, i + 1, EmptyDict)
    ELSE JsonFail(i)

\* json.loads(text): [ok, val]; ok = FALSE stands for json.JSONDecodeError
\* (no value, or data left after the value).
json_loads(text) ==
    LET r == ParseValue(text, 1) IN
    IF r.ok /\ r.next = Len(text) + 1
    THEN [ok |-> TRUE, val |-> r.val]
    ELSE [ok |-> FALSE, val |-> PyNone]

(***************************************************************************)
(* str.split(',') and str.strip() on a sequence of characters.             *)
(***************************************************************************)
Whitespace == {" "}

RECURSIVE split(_, _)
split(s, sep) ==
    IF \A i \in 1..Len(s) : s[i] # sep THEN <<s>>
    ELSE LET k == CHOOSE i \in 1..Len(s) : s[i] = sep /\ \A j \in 1..(i - 1) : s[j] # sep
         IN <<SubSeq(s, 1, k - 1)>> \o split(SubSeq(s, k + 1, Len(s)), sep)

RECURSIVE lstrip(_)
lstrip(s) == IF Len(s) > 0 /\ s[1] \in Whitespace THEN lstrip(Tail(s)) ELSE s

RECURSIVE rstrip(_)
rstrip(s) ==
    IF Len(s) > 0 /\ s[Len(s)] \in Whitespace THEN rstrip(SubSeq(s, 1, Len(s) - 1)) ELSE s

\* Mutant of strip: only leading whitespace is removed.
strip_leading_only(s) == lstrip(s)

strip(s) == rstrip(lstrip(s))

(***************************************************************************)
(* Bounds of the model.                                                    *)
(***************************************************************************)
\* Longest JSON text (in lexemes) given in --file's file or in --state.
MaxText == 5

\* Longest MEMBERS_CSV (in characters) of a --target-group repetition.
MaxCsv == 2

\* Most repetitions of --target-group in one invocation.
MaxGroups == 2

SeqsUpTo(S, n) == UNION {[1..k -> S] : k \in 0..n}

JsonTexts == SeqsUpTo(JsonLexemes, MaxText)

CsvChars == {"m", ",", " "}

CsvTexts == SeqsUpTo(CsvChars, MaxCsv)

GroupNames == {<<"A">>, <<"B">>}

\* What click hands to the --target-group callback: a tuple of (str, str) pairs.
TargetGroupValues == SeqsUpTo(GroupNames \X CsvTexts, MaxGroups)

\* The --target-group values used when a whole sessions create is invoked.
CreateGroupPairs == {<<<<"g1">>, <<"m">>>>, <<<<"g2">>, <<"m", ",", " ", "m">>>>}

CreateGroupValues == SeqsUpTo(CreateGroupPairs, MaxGroups)

Ids == {PyStr(<<"id1">>), PyStr(<<"id2">>)}

\* Values of an option that is not one of the shims' own: not supplied, '', 'x'.
OptValues == {PyNone, PyStr(<<>>), PyStr(<<"x">>)}

TargetDefinitions == {PyNone, PyStr(<<"image">>), PyStr(<<"dynamic">>)}

\* The files of the file system; every other path does not exist.
Files == {"cfg.json"}

FileValues == {PyNone, PyStr(<<>>), PyStr(<<"cfg.json">>), PyStr(<<"missing.json">>)}

(***************************************************************************)
(* The generated command tree and the option layer.                        *)
(***************************************************************************)
Param(name, payload_name) == [name |-> name, payload_name |-> payload_name]

\* The underscore-separated words of a parameter name.
Words(name) ==
    CASE name = "layers_name" -> <<"layers", "name">>
      [] name = "layers_commit" -> <<"layers", "commit">>
      [] name = "configuration_id" -> <<"configuration", "id">>
      [] name = "update_branches" -> <<"update", "branches">>
      [] name = "target_definition" -> <<"target", "definition">>
      [] name = "target_groups_members" -> <<"target", "groups", "members">>
      [] name = "target_groups_name" -> <<"target", "groups", "name">>
      [] name = "target_group" -> <<"target", "group">>
      [] name = "component_id" -> <<"component", "id">>
      [] name = "state_commit" -> <<"state", "commit">>
      [] name = "state_playbook" -> <<"state", "playbook">>
      [] name = "desired_config" -> <<"desired", "config">>
      [] OTHER -> <<name>>

\* name.startswith(word + '_')
startswith_(name, word) == Len(Words(name)) > 1 /\ Words(name)[1] = word

Leaf(ps, cb) == [params |-> ps, callback |-> cb]

\* A callable: a generated callback, or a shim closed over the callbacks it wraps.
Generated(name) == [fn |-> "generated", of |-> <<name>>]

Shim(fn, wrapped) == [fn |-> fn, of |-> wrapped]

ConfigurationsUpdateLeaf ==
    Leaf(<<Param("layers_name", "layers-name"),
           Param("layers_commit", "layers-commit"),
           Param("configuration_id", "configuration_id"),
           Param("format", "format")>>, Generated("update"))

\* generate(__file__, swagger_opts=SWAGGER_OPTS).commands[CURRENT_VERSION].commands,
\* as far as this module reads it: the leaves it names, with generated parameters.
GeneratedCommands ==
    [configurations |-> [update |-> ConfigurationsUpdateLeaf],
     sessions |->
        [create |-> Leaf(<<Param("name", "name"),
                           Param("target_definition", "target-definition"),
                           Param("target_groups_members", "target-groups-members"),
                           Param("target_groups_name", "target-groups-name")>>,
                         Generated("create")),
         update |-> Leaf(<<Param("session_name", "session_name")>>,
                         Generated("session_update"))],
     components |->
        [update |-> Leaf(<<Param("state_commit", "state-commit"),
                           Param("state_playbook", "state-playbook"),
                           Param("component_id", "component_id"),
                           Param("desired_config", "desiredConfig")>>,
                         Generated("component_update"))]]

\* The same tree generated with the vocabulary {'patch': 'patch'}: the
\* configurations resource then has a patch leaf next to update.
TmpCommands ==
    [GeneratedCommands EXCEPT !.configurations =
        [update |-> ConfigurationsUpdateLeaf,
         patch |-> Leaf(<<Param("configuration_id", "configuration_id"),
                          Param("format", "format")>>, Generated("patch"))]]

FROM_FILE_TAG == "FROM_FILE_TAG"

\* _opt_callback: the value under the option's payload name.
_opt_callback(payload_name, value) == [name |-> payload_name, value |-> value]

\* option(...)(command): the new option is appended to command.params.
option(leaf, param) == [leaf EXCEPT !.params = Append(@, param)]

\* list.insert(i, x), i counted from 0.
insert(s, i, x) ==
    IF i >= Len(s) THEN Append(s, x)
    ELSE SubSeq(s, 1, i) \o <<x>> \o SubSeq(s, i + 1, Len(s))

ParamNames(leaf) == {leaf.params[i].name : i \in 1..Len(leaf.params)}

PayloadName(leaf, n) ==
    (CHOOSE p \in {leaf.params[i] : i \in 1..Len(leaf.params)} : p.name = n).payload_name

(***************************************************************************)
(* CONFIGURATIONS                                                          *)
(***************************************************************************)
UsageError == "Exception: Either --file or --update-branches must be set for updates"

\* One invocation of a wrapped (generated) callback.
Call(cb, named, kwargs) == [callback |-> cb, named |-> named, kwargs |-> kwargs]

Result(out, cs) == [outcome |-> out, calls |-> cs]

\* Mutant of create_configurations_shim: without --file the patch callback is
\* invoked whether or not --update-branches is set.
create_configurations_shim_always_patch(update_callback, patch_callback, configuration_id, file, update_branches, kwargs, fs) ==
    LET file_name == file.value IN
    IF Truthy(file_name) THEN
        IF file_name.v[1] \notin DOMAIN fs THEN Result("FileNotFoundError", <<>>)
        ELSE LET data == json_loads(fs[file_name.v[1]]) IN
             IF ~data.ok THEN Result("JSONDecodeError", <<>>)
             ELSE Result("ok", <<Call(update_callback,
                                      [configuration_id |-> configuration_id],
                                      DictSet(kwargs, FROM_FILE_TAG,
                                              [name |-> FROM_FILE_TAG,
                                               value |-> data.val]))>>)
    ELSE Result("ok", <<Call(patch_callback,
                             [configuration_id |-> configuration_id], kwargs)>>)

\* Mutant of create_configurations_shim: the other options are merged into
\* the payload read from the file.
create_configurations_shim_merged(update_callback, patch_callback, configuration_id, file, update_branches, kwargs, fs) ==
    LET file_name == file.value
        others == {k \in DOMAIN kwargs : kwargs[k].value # PyNone}
        Merge(val) ==
            IF val.t = "dict"
            THEN PyDict([k \in (DOMAIN val.v) \cup others |->
                            IF k \in others THEN kwargs[k].value ELSE val.v[k]])
            ELSE val
    IN
    IF Truthy(file_name) THEN
        IF file_name.v[1] \notin DOMAIN fs THEN Result("FileNotFoundError", <<>>)
        ELSE LET data == json_loads(fs[file_name.v[1]]) IN
             IF ~data.ok THEN Result("JSONDecodeError", <<>>)
             ELSE Result("ok", <<Call(update_callback,
                                      [configuration_id |-> configuration_id],
                                      DictSet(kwargs, FROM_FILE_TAG,
                                              [name |-> FROM_FILE_TAG,
                                               value |-> Merge(data.val)]))>>)
    ELSE IF Truthy(update_branches.value) THEN
        Result("ok", <<Call(patch_callback,
                            [configuration_id |-> configuration_id], kwargs)>>)
    ELSE Result(UsageError, <<>>)

\* create_configurations_shim(update_callback, patch_callback)._decorator on a
\* file system fs (path -> text of the file).
create_configurations_shim(update_callback, patch_callback, configuration_id, file, update_branches, kwargs, fs) ==
    LET file_name == file.value IN
    IF Truthy(file_name) THEN
        IF file_name.v[1] \notin DOMAIN fs THEN Result("FileNotFoundError", <<>>)
        ELSE LET data == json_loads(fs[file_name.v[1]]) IN
             IF ~data.ok THEN Result("JSONDecodeError", <<>>)
             ELSE LET payload == data.val
                      kw == DictSet(kwargs, FROM_FILE_TAG,
                                    [name |-> FROM_FILE_TAG, value |-> payload])
                  IN Result("ok", <<Call(update_callback,
                                         [configuration_id |-> configuration_id], kw)>>)
    ELSE IF Truthy(update_branches.value) THEN
        Result("ok", <<Call(patch_callback,
                            [configuration_id |-> configuration_id], kwargs)>>)
    ELSE Result(UsageError, <<>>)

\* Mutant of setup_configuration_from_file: the two wrapped callbacks are
\* handed to the shim in the wrong order.
setup_configuration_from_file_swapped(cfs_cli) ==
    LET update_command == TmpCommands.configurations.update
        patch_command == TmpCommands.configurations.patch
        with_options == option(option(update_command, Param("file", "file")),
                               Param("update_branches", "update-branches"))
        n == Len(with_options.params)
        NotLayer(param) == ~startswith_(param.name, "layers")
        new_params == SubSeq(with_options.params, n - 1, n)
                      \o SelectSeq(SubSeq(with_options.params, 1, n - 2), NotLayer)
        new_command == Leaf(new_params,
                            Shim("create_configurations_shim",
                                 <<patch_command.callback.of[1],
                                   update_command.callback.of[1]>>))
    IN [cfs_cli EXCEPT !.configurations = DictSet(@, "update", new_command)]

\* setup_configuration_from_file(cfs_cli)
setup_configuration_from_file(cfs_cli) ==
    LET update_command == TmpCommands.configurations.update
        patch_command == TmpCommands.configurations.patch
        with_options == option(option(update_command, Param("file", "file")),
                               Param("update_branches", "update-branches"))
        n == Len(with_options.params)
        NotLayer(param) == ~startswith_(param.name, "layers")
        new_params == SubSeq(with_options.params, n - 1, n)
                      \o SelectSeq(SubSeq(with_options.params, 1, n - 2), NotLayer)
        new_command == Leaf(new_params,
                            Shim("create_configurations_shim",
                                 <<update_command.callback.of[1],
                                   patch_command.callback.of[1]>>))
    IN [cfs_cli EXCEPT !.configurations = DictSet(@, "update", new_command)]

(***************************************************************************)
(* SESSIONS                                                                *)
(***************************************************************************)
GROUP_MEMBERS_PAYLOAD == "target-groups-members"

GROUP_NAME_PAYLOAD == "target-groups-name"

GROUPS_PAYLOAD == "target-group"

\* Mutant of del_sessions_update: nothing is deleted.
del_sessions_update_kept(cfs_cli) == cfs_cli

\* del cli.commands['sessions'].commands['update']
del_sessions_update(cfs_cli) ==
    [cfs_cli EXCEPT !.sessions = [a \in (DOMAIN @) \ {"update"} |-> @[a]]]

\* _targets_callback(cb)._cb(ctx, param, value): value is the tuple of
\* (group, members) pairs; cb is "None" or the name of the callback to chain.
RECURSIVE targets_groups(_)
targets_groups(value) ==
    IF value = <<>> THEN <<>>
    ELSE LET group == value[1][1]
             tokens == split(value[1][2], ",")
             members == [k \in 1..Len(tokens) |-> PyStr(strip(tokens[k]))]
         IN <<PyDict([name |-> PyStr(group), members |-> PyList(members)])>>
            \o targets_groups(Tail(value))

_targets_callback(cb, payload_name, value) ==
    LET groups == PyList(targets_groups(value)) IN
    IF cb # "None" THEN _opt_callback(payload_name, groups) ELSE groups

\* option('--' + GROUPS_PAYLOAD, ...)(CREATE_CMD)
add_target_group_option(cfs_cli) ==
    [cfs_cli EXCEPT !.sessions.create = option(@, Param("target_group", GROUPS_PAYLOAD))]

\* The loop over CREATE_CMD.params that drops the generated group options and
\* moves the new one to index 1.
RECURSIVE rewrite_params(_, _)
rewrite_params(ps, acc) ==
    IF ps = <<>> THEN acc
    ELSE LET p == Head(ps) IN
         IF p.payload_name \in {GROUP_MEMBERS_PAYLOAD, GROUP_NAME_PAYLOAD}
         THEN rewrite_params(Tail(ps), acc)
         ELSE IF p.payload_name = GROUPS_PAYLOAD
         THEN rewrite_params(Tail(ps), insert(acc, 1, p))
         ELSE rewrite_params(Tail(ps), Append(acc, p))

update_create_params(cfs_cli) ==
    [cfs_cli EXCEPT !.sessions.create.params = rewrite_params(@, <<>>)]

\* The payload comprehension of the sessions and components shims:
\* {v['name']: v['value'] for _, v in kwargs.items() if v['value'] is not None}
flatten(kwargs) ==
    LET kept == {k \in DOMAIN kwargs : kwargs[k].value # PyNone} IN
    [n \in {kwargs[k].name : k \in kept} |->
        kwargs[CHOOSE k \in kept : kwargs[k].name = n].value]

\* Mutant of create_sessions_shim: the target definition is flattened into
\* the payload like any other option and target holds the groups alone.
create_sessions_shim_flat(func, target_definition, target_group, kwargs) ==
    LET flat == flatten(DictSet(kwargs, "target_definition", target_definition))
        payload == DictSet(flat, "target", PyDict([groups |-> target_group.value]))
        kw == DictSet(kwargs, FROM_FILE_TAG,
                      [name |-> FROM_FILE_TAG, value |-> PyDict(payload)])
    IN Result("ok", <<Call(func, EmptyDict, kw)>>)

\* create_sessions_shim(func)._decorator
create_sessions_shim(func, target_definition, target_group, kwargs) ==
    LET payload == DictSet(flatten(kwargs), "target",
                           PyDict([definition |-> target_definition.value,
                                   groups |-> target_group.value]))
        kw == DictSet(kwargs, FROM_FILE_TAG,
                      [name |-> FROM_FILE_TAG, value |-> PyDict(payload)])
    IN Result("ok", <<Call(func, EmptyDict, kw)>>)

\* CREATE_CMD.callback = create_sessions_shim(CREATE_CMD.callback)
bind_create_callback(cfs_cli) ==
    [cfs_cli EXCEPT !.sessions.create.callback =
        Shim("create_sessions_shim", <<@.of[1]>>)]

(***************************************************************************)
(* COMPONENTS                                                              *)
(***************************************************************************)
\* Mutant of create_components_shim: the state key is always set, to None
\* when --state is not given.
create_components_shim_always_state(func, component_id, state, kwargs) ==
    LET parsed == IF Truthy(state.value) THEN json_loads(state.value.v)
                  ELSE [ok |-> TRUE, val |-> PyNone]
        payload == DictSet(flatten(kwargs), "state", parsed.val)
        kw == DictSet(kwargs, FROM_FILE_TAG,
                      [name |-> FROM_FILE_TAG, value |-> PyDict(payload)])
    IN IF ~parsed.ok THEN Result("JSONDecodeError", <<>>)
       ELSE Result("ok", <<Call(func, [component_id |-> component_id], kw)>>)

\* Mutant of create_components_shim: a --state that does not parse is dropped
\* and the rest of the payload is sent.
create_components_shim_lenient(func, component_id, state, kwargs) ==
    LET flat == flatten(kwargs)
        parsed == IF Truthy(state.value) THEN json_loads(state.value.v)
                  ELSE [ok |-> FALSE, val |-> PyNone]
        payload == IF parsed.ok THEN DictSet(flat, "state", parsed.val) ELSE flat
        kw == DictSet(kwargs, FROM_FILE_TAG,
                      [name |-> FROM_FILE_TAG, value |-> PyDict(payload)])
    IN Result("ok", <<Call(func, [component_id |-> component_id], kw)>>)

\* create_components_shim(func)._decorator
create_components_shim(func, component_id, state, kwargs) ==
    LET flat == flatten(kwargs)
        parsed == IF Truthy(state.value) THEN json_loads(state.value.v)
                  ELSE [ok |-> TRUE, val |-> PyNone]
        payload == IF Truthy(state.value) THEN DictSet(flat, "state", parsed.val) ELSE flat
        kw == DictSet(kwargs, FROM_FILE_TAG,
                      [name |-> FROM_FILE_TAG, value |-> PyDict(payload)])
    IN IF ~parsed.ok THEN Result("JSONDecodeError", <<>>)
       ELSE Result("ok", <<Call(func, [component_id |-> component_id], kw)>>)

\* setup_component_state(cfs_cli)
setup_component_state(cfs_cli) ==
    LET command == option(cfs_cli.components.update, Param("state", "state"))
        n == Len(command.params)
        NotState(param) == ~startswith_(param.name, "state")
        new_params == <<command.params[n]>>
                      \o SelectSeq(SubSeq(command.params, 1, n - 1), NotState)
    IN [cfs_cli EXCEPT !.components.update =
            Leaf(new_params, Shim("create_components_shim", <<command.callback.of[1]>>))]

(***************************************************************************)
(* The state machine: the patch phase (module import), then invocations    *)
(* of the patched commands.                                                *)
(***************************************************************************)
VARIABLES
    pc,       \* the next statement of the patch phase, then "ready" / "returned"
    cli,      \* cli.commands: resource -> sub-action -> leaf command
    inv,      \* the command being invoked and its parsed arguments
    outcome,  \* how the invocation ended: "ok" or the exception raised
    calls     \* the invocations of wrapped callbacks made by the invocation

vars == <<pc, cli, inv, outcome, calls>>

NoInvocation == [cmd |-> "none", args |-> <<>>]

Init ==
    /\ pc = "setup_configuration_from_file"
    /\ cli = GeneratedCommands
    /\ inv = NoInvocation
    /\ outcome = "none"
    /\ calls = <<>>

\* setup_configuration_from_file(cli), called at import
SetupConfigurationFromFile ==
    /\ pc = "setup_configuration_from_file"
    /\ pc' = "del_sessions_update"
    /\ cli' = setup_configuration_from_file(cli)
    /\ UNCHANGED <<inv, outcome, calls>>

\* del cli.commands['sessions'].commands['update']
DelSessionsUpdate ==
    /\ pc = "del_sessions_update"
    /\ pc' = "add_target_group_option"
    /\ cli' = del_sessions_update(cli)
    /\ UNCHANGED <<inv, outcome, calls>>

\* option('--target-group', ...)(CREATE_CMD)
AddTargetGroupOption ==
    /\ pc = "add_target_group_option"
    /\ pc' = "update_create_params"
    /\ cli' = add_target_group_option(cli)
    /\ UNCHANGED <<inv, outcome, calls>>

\* CREATE_CMD.params = params
UpdateCreateParams ==
    /\ pc = "update_create_params"
    /\ pc' = "bind_create_callback"
    /\ cli' = update_create_params(cli)
    /\ UNCHANGED <<inv, outcome, calls>>

\* CREATE_CMD.callback = create_sessions_shim(CREATE_CMD.callback)
BindCreateCallback ==
    /\ pc = "bind_create_callback"
    /\ pc' = "setup_component_state"
    /\ cli' = bind_create_callback(cli)
    /\ UNCHANGED <<inv, outcome, calls>>

\* setup_component_state(cli), called at import
SetupComponentState ==
    /\ pc = "setup_component_state"
    /\ pc' = "ready"
    /\ cli' = setup_component_state(cli)
    /\ UNCHANGED <<inv, outcome, calls>>

\* The keyword arguments a leaf's callback receives beyond the ones it names:
\* one wrapper per remaining parameter, built by _opt_callback.
KwargsOf(leaf, named, value) ==
    [n \in ParamNames(leaf) \ named |-> _opt_callback(PayloadName(leaf, n), value[n])]

Finish(cmd, args, res) ==
    /\ pc' = "returned"
    /\ inv' = [cmd |-> cmd, args |-> args]
    /\ outcome' = res.outcome
    /\ calls' = res.calls
    /\ UNCHANGED cli

\* cray cfs configurations update CONFIGURATION_ID [--file F] [--update-branches]
ConfigurationsUpdate ==
    /\ pc = "ready"
    /\ "update" \in DOMAIN cli.configurations
    /\ LET leaf == cli.configurations.update
           named == {"configuration_id", "file", "update_branches"} IN
       /\ leaf.callback.fn = "create_configurations_shim"
       /\ \E configuration_id \in Ids, file_value \in FileValues, flag \in BOOLEAN,
             value \in [ParamNames(leaf) \ named -> OptValues] :
          \E fs \in (IF file_value.t = "str" /\ file_value.v # <<>>
                        /\ file_value.v[1] \in Files
                     THEN [Files -> JsonTexts] ELSE {[f \in Files |-> <<>>]}) :
             LET file == _opt_callback("file", file_value)
                 update_branches == _opt_callback("update-branches", PyBool(flag))
                 kwargs == KwargsOf(leaf, named, value)
             IN Finish("configurations update",
                       [configuration_id |-> configuration_id, file |-> file,
                        update_branches |-> update_branches, kwargs |-> kwargs,
                        fs |-> fs],
                       create_configurations_shim(leaf.callback.of[1], leaf.callback.of[2],
                           configuration_id, file, update_branches, kwargs, fs))

\* cray cfs sessions create [--target-definition D] [--target-group G M]...
SessionsCreate ==
    /\ pc = "ready"
    /\ "create" \in DOMAIN cli.sessions
    /\ LET leaf == cli.sessions.create
           named == {"target_definition", "target_group"} IN
       /\ leaf.callback.fn = "create_sessions_shim"
       /\ named \subseteq ParamNames(leaf)
       /\ \E definition \in TargetDefinitions, groups \in CreateGroupValues,
             value \in [ParamNames(leaf) \ named -> OptValues] :
             LET target_definition == _opt_callback("target-definition", definition)
                 target_group == _targets_callback("_opt_callback", GROUPS_PAYLOAD, groups)
                 kwargs == KwargsOf(leaf, named, value)
             IN Finish("sessions create",
                       [target_definition |-> target_definition, raw_groups |-> groups,
                        target_group |-> target_group, kwargs |-> kwargs],
                       create_sessions_shim(leaf.callback.of[1],
                           target_definition, target_group, kwargs))

\* cray cfs components update COMPONENT_ID [--state JSON]
ComponentsUpdate ==
    /\ pc = "ready"
    /\ "update" \in DOMAIN cli.components
    /\ LET leaf == cli.components.update
           named == {"component_id", "state"} IN
       /\ leaf.callback.fn = "create_components_shim"
       /\ \E component_id \in Ids,
             state_value \in {PyNone} \cup {PyStr(t) : t \in JsonTexts},
             value \in [ParamNames(leaf) \ named -> OptValues] :
             LET state == _opt_callback("state", state_value)
                 kwargs == KwargsOf(leaf, named, value)
             IN Finish("components update",
                       [component_id |-> component_id, state |-> state, kwargs |-> kwargs],
                       create_components_shim(leaf.callback.of[1],
                           component_id, state, kwargs))

\* The invocation is over; the process may be asked for another command.
Return ==
    /\ pc = "returned"
    /\ pc' = "ready"
    /\ inv' = NoInvocation
    /\ outcome' = "none"
    /\ calls' = <<>>
    /\ UNCHANGED cli

Next ==
    \/ SetupConfigurationFromFile
    \/ DelSessionsUpdate
    \/ AddTargetGroupOption
    \/ UpdateCreateParams
    \/ BindCreateCallback
    \/ SetupComponentState
    \/ ConfigurationsUpdate
    \/ SessionsCreate
    \/ ComponentsUpdate
    \/ Return

Spec == Init /\ [][Next]_vars

\* The tree once the patch phase is over.
PatchedCommands ==
    setup_component_state(bind_create_callback(update_create_params(
        add_target_group_option(del_sessions_update(
            setup_configuration_from_file(GeneratedCommands))))))

(***************************************************************************)
(* The --target-group callback on its own: every value click can hand it.  *)
(***************************************************************************)
InitTargets ==
    /\ pc = "targets_callback"
    /\ cli = PatchedCommands
    /\ \E value \in TargetGroupValues :
          inv = [cmd |-> "--target-group", args |-> [value |-> value]]
    /\ outcome = "none"
    /\ calls = <<>>

TargetsCallback ==
    /\ pc = "targets_callback"
    /\ pc' = "parsed"
    /\ inv' = [cmd |-> "--target-group",
               args |-> [value |-> inv.args.value,
                         ret |-> _targets_callback("_opt_callback", GROUPS_PAYLOAD,
                                                   inv.args.value)]]
    /\ outcome' = "ok"
    /\ UNCHANGED <<cli, calls>>

SpecTargets == InitTargets /\ [][TargetsCallback]_vars

(***************************************************************************)
(* Properties.                                                             *)
(***************************************************************************)
Returned(cmd) == pc = "returned" /\ inv.cmd = cmd

\* The payload handed to a wrapped callback under FROM_FILE_TAG.
PayloadOf(call) == call.kwargs[FROM_FILE_TAG].value

\* The k-th smallest member of a set of numbers.
KthOf(S, k) == CHOOSE p \in S : Cardinality({q \in S : q < p}) = k - 1

\* The k-th comma-separated token of csv: what lies between the (k-1)-th and
\* the k-th comma (the ends of csv standing for commas 0 and n+1).
TokenAt(csv, k) ==
    LET cuts == {0, Len(csv) + 1} \cup {i \in 1..Len(csv) : csv[i] = ","}
    IN SubSeq(csv, KthOf(cuts, k) + 1, KthOf(cuts, k + 1) - 1)

\* m is tok without its leading and trailing whitespace.
IsTrimOf(m, tok) ==
    /\ m = <<>> \/ (m[1] \notin Whitespace /\ m[Len(m)] \notin Whitespace)
    /\ \E a \in 0..Len(tok) : \E b \in 0..(Len(tok) - a) :
          /\ m = SubSeq(tok, a + 1, Len(tok) - b)
          /\ \A i \in 1..a : tok[i] \in Whitespace
          /\ \A i \in (Len(tok) - b + 1)..Len(tok) : tok[i] \in Whitespace

\* rec is the {name, members} record of the repetition (group, csv).
IsGroupRecord(rec, group, csv) ==
    /\ rec.t = "dict"
    /\ DOMAIN rec.v = {"name", "members"}
    /\ rec.v.name = PyStr(group)
    /\ rec.v.members.t = "list"
    /\ Len(rec.v.members.v) = Cardinality({i \in 1..Len(csv) : csv[i] = ","}) + 1
    /\ \A k \in 1..Len(rec.v.members.v) :
          /\ rec.v.members.v[k].t = "str"
          /\ IsTrimOf(rec.v.members.v[k].v, TokenAt(csv, k))

\* C1: the --target-group callback returns, under the option's payload name,
\* one {name, members} record per repetition, in the order of the repetitions;
\* name is the group name unchanged and members are the comma-separated tokens
\* of MEMBERS_CSV, each trimmed of surrounding whitespace, in token order.
C1_TargetsParsed ==
    pc = "parsed" =>
        LET value == inv.args.value
            ret == inv.args.ret IN
        /\ ret.name = GROUPS_PAYLOAD
        /\ ret.value.t = "list"
        /\ Len(ret.value.v) = Len(value)
        /\ \A i \in 1..Len(value) :
              IsGroupRecord(ret.value.v[i], value[i][1], value[i][2])

C1_Witness ==
    /\ pc = "parsed"
    /\ inv.args.value = << <<<<"B">>, <<"m", ",">>>>, <<<<"A">>, <<" ", "m">>>> >>
    /\ inv.args.ret.value =
          PyList(<<PyDict([name |-> PyStr(<<"B">>),
                           members |-> PyList(<<PyStr(<<"m">>), PyStr(<<>>)>>)]),
                   PyDict([name |-> PyStr(<<"A">>),
                           members |-> PyList(<<PyStr(<<"m">>)>>)])>>)

\* C2: configurations update with --file unset and --update-branches unset
\* fails with the usage error and invokes neither wrapped callback.
C2_NeitherSetFails ==
    (/\ Returned("configurations update")
     /\ inv.args.file.value = PyNone
     /\ inv.args.update_branches.value = PyBool(FALSE))
    => (outcome = UsageError /\ calls = <<>>)

C2_Witness ==
    /\ Returned("configurations update")
    /\ inv.args.file.value = PyNone
    /\ inv.args.update_branches.value = PyBool(FALSE)
    /\ outcome = UsageError

\* The file named by --file exists and holds valid JSON.
FileIsValidJson ==
    /\ Truthy(inv.args.file.value)
    /\ inv.args.file.value.v[1] \in DOMAIN inv.args.fs
    /\ json_loads(inv.args.fs[inv.args.file.value.v[1]]).ok

\* C3: when --file names a file holding valid JSON, the update callback is
\* invoked (the patch callback is not) with the configuration id unchanged and
\* with a payload that is exactly the parsed content of the file: the other
\* options stay keyword arguments of their own and add nothing to the payload.
C3_FilePayloadExact ==
    (Returned("configurations update") /\ FileIsValidJson) =>
        /\ outcome = "ok"
        /\ Len(calls) = 1
        /\ calls[1].callback = "update"
        /\ calls[1].named = [configuration_id |-> inv.args.configuration_id]
        /\ PayloadOf(calls[1]) = json_loads(inv.args.fs[inv.args.file.value.v[1]]).val
        /\ \A k \in DOMAIN inv.args.kwargs : calls[1].kwargs[k] = inv.args.kwargs[k]
        /\ DOMAIN calls[1].kwargs = DOMAIN inv.args.kwargs \cup {FROM_FILE_TAG}

C3_Witness ==
    /\ Returned("configurations update")
    /\ inv.args.fs["cfg.json"] = <<"{", "\"layers\"", ":", "\"layers\"", "}">>
    /\ inv.args.file.value = PyStr(<<"cfg.json">>)
    /\ inv.args.kwargs["format"].value = PyStr(<<"x">>)
    /\ Len(calls) = 1
    /\ PayloadOf(calls[1]).t = "dict"
    /\ PayloadOf(calls[1]) = PyDict([layers |-> PyStr(<<"layers">>)])

\* --state was supplied with valid JSON text.
StateIsValidJson ==
    /\ inv.args.state.value.t = "str"
    /\ json_loads(inv.args.state.value.v).ok

\* C4: components update with --state holding valid JSON puts the parsed value
\* under the payload's state key ('[]' gives the empty list); without --state
\* the payload has no state key.  Either way the component id is an argument
\* of its own, unchanged, and no key of the payload.
C4_StatePayload ==
    Returned("components update") =>
        /\ StateIsValidJson =>
              /\ Len(calls) = 1
              /\ "state" \in DOMAIN PayloadOf(calls[1]).v
              /\ PayloadOf(calls[1]).v["state"] = json_loads(inv.args.state.value.v).val
              /\ inv.args.state.value.v = <<"[", "]">> =>
                    PayloadOf(calls[1]).v["state"] = PyList(<<>>)
        /\ inv.args.state.value = PyNone =>
              /\ Len(calls) = 1
              /\ "state" \notin DOMAIN PayloadOf(calls[1]).v
        /\ (StateIsValidJson \/ inv.args.state.value = PyNone) =>
              /\ outcome = "ok"
              /\ calls[1].callback = "component_update"
              /\ calls[1].named = [component_id |-> inv.args.component_id]
              /\ PayloadOf(calls[1]).t = "dict"
              /\ DOMAIN PayloadOf(calls[1]).v \cap {"component_id", "component-id"} = {}

C4_Witness ==
    /\ Returned("components update")
    /\ inv.args.state.value = PyStr(<<"[", "]">>)
    /\ Len(calls) = 1
    /\ PayloadOf(calls[1]).v["state"] = PyList(<<>>)
    /\ calls[1].named.component_id = PyStr(<<"id2">>)

\* The {name, members} record each --target-group pair of CreateGroupPairs
\* stands for.
ExpectedGroup(pair) ==
    CASE pair = <<<<"g1">>, <<"m">>>> ->
            PyDict([name |-> PyStr(<<"g1">>), members |-> PyList(<<PyStr(<<"m">>)>>)])
      [] pair = <<<<"g2">>, <<"m", ",", " ", "m">>>> ->
            PyDict([name |-> PyStr(<<"g2">>),
                    members |-> PyList(<<PyStr(<<"m">>), PyStr(<<"m">>)>>)])

\* C5: the payload of sessions create has a target key holding {definition:
\* the --target-definition value, groups: the group records of --target-group
\* in order}; target_definition and target_group are no keys of the payload.
C5_TargetComposed ==
    Returned("sessions create") =>
        /\ outcome = "ok"
        /\ Len(calls) = 1
        /\ calls[1].callback = "create"
        /\ PayloadOf(calls[1]).t = "dict"
        /\ "target" \in DOMAIN PayloadOf(calls[1]).v
        /\ PayloadOf(calls[1]).v["target"] =
              PyDict([definition |-> inv.args.target_definition.value,
                      groups |-> PyList([i \in 1..Len(inv.args.raw_groups) |->
                                            ExpectedGroup(inv.args.raw_groups[i])])])
        /\ DOMAIN PayloadOf(calls[1]).v
              \cap {"target_definition", "target-definition",
                    "target_group", "target-group"} = {}

C5_Witness ==
    /\ Returned("sessions create")
    /\ inv.args.target_definition.value = PyStr(<<"image">>)
    /\ inv.args.raw_groups = << <<<<"g2">>, <<"m", ",", " ", "m">>>>, <<<<"g1">>, <<"m">>>> >>
    /\ Len(calls) = 1
    /\ PayloadOf(calls[1]).v["target"].v.groups.v[1].v.name = PyStr(<<"g2">>)

\* C6: the generated sessions tree has an update sub-action; from the del
\* statement on, in the patch phase and whatever commands are executed later,
\* it has none, and create is still there.
C6_NoSessionsUpdate ==
    /\ pc = "setup_configuration_from_file" => "update" \in DOMAIN cli.sessions
    /\ pc \notin {"setup_configuration_from_file", "del_sessions_update"} =>
          /\ "update" \notin DOMAIN cli.sessions
          /\ "create" \in DOMAIN cli.sessions

C6_Witness ==
    /\ Returned("sessions create")
    /\ "update" \notin DOMAIN cli.sessions
    /\ "create" \in DOMAIN cli.sessions

\* C7: an invocation of configurations update that sets both --file and
\* --update-branches fails with the usage error and invokes neither callback
\* (stated for a --file that can be read and parsed, so that no other error
\* comes first).
C7_BothSetFails ==
    (/\ Returned("configurations update")
     /\ FileIsValidJson
     /\ Truthy(inv.args.update_branches.value))
    => (outcome = UsageError /\ calls = <<>>)

\* The value of the option a payload key of a shim stands for.
Supplied(key) ==
    IF key = "state" /\ inv.cmd = "components update" THEN Truthy(inv.args.state.value)
    ELSE IF key = "target" /\ inv.cmd = "sessions create"
    THEN Truthy(inv.args.target_definition.value) \/ Truthy(inv.args.target_group.value)
    ELSE \E k \in DOMAIN inv.args.kwargs :
            inv.args.kwargs[k].name = key /\ Truthy(inv.args.kwargs[k].value)

\* C8: in the payload of sessions create and of components update a key is
\* present only if its option's value is non-empty (for the target key: the
\* target definition or the groups).
C8_OnlyNonEmptyKeys ==
    (pc = "returned" /\ inv.cmd \in {"sessions create", "components update"}
        /\ Len(calls) = 1)
    => \A key \in DOMAIN PayloadOf(calls[1]).v : Supplied(key)

\* The JSON read by the invocation (the text of --file's file, or of --state)
\* is malformed.
MalformedFile ==
    /\ inv.cmd = "configurations update"
    /\ Truthy(inv.args.file.value)
    /\ inv.args.file.value.v[1] \in DOMAIN inv.args.fs
    /\ ~json_loads(inv.args.fs[inv.args.file.value.v[1]]).ok

MalformedState ==
    /\ inv.cmd = "components update"
    /\ inv.args.state.value.t = "str"
    /\ ~json_loads(inv.args.state.value.v).ok

\* Every option handed to the shim with a value other than None has its key in
\* the payload: the payload was whole when the callback was invoked.
WholePayload(call) ==
    /\ FROM_FILE_TAG \in DOMAIN call.kwargs
    /\ inv.cmd \in {"sessions create", "components update"} =>
          /\ \A k \in DOMAIN inv.args.kwargs :
                inv.args.kwargs[k].value # PyNone =>
                    inv.args.kwargs[k].name \in DOMAIN PayloadOf(call).v
          /\ inv.cmd = "sessions create" => "target" \in DOMAIN PayloadOf(call).v
          /\ (inv.cmd = "components update" /\ Truthy(inv.args.state.value)) =>
                "state" \in DOMAIN PayloadOf(call).v

AtMostOneWholeCall ==
    /\ Len(calls) <= 1
    /\ Len(calls) = 1 =>
          /\ outcome = "ok"
          /\ calls[1].callback # "patch" => WholePayload(calls[1])

\* C9 as stated: at most one invocation of the wrapped callback, made with the
\* whole payload; malformed JSON in --file or in --state ends the invocation
\* in a parse error with no invocation of the callback.
C9_MalformedNeverSent ==
    pc = "returned" =>
        /\ AtMostOneWholeCall
        /\ (MalformedFile \/ MalformedState) =>
              (outcome = "JSONDecodeError" /\ calls = <<>>)

\* C9 amended: the same, for malformed JSON in --file's file and in a
\* non-empty --state; an empty --state is taken as not supplied: the callback
\* is invoked once, with a payload that has no state key.
C9_NonEmptyMalformedNeverSent ==
    pc = "returned" =>
        /\ AtMostOneWholeCall
        /\ (MalformedFile \/ (MalformedState /\ inv.args.state.value.v # <<>>)) =>
              (outcome = "JSONDecodeError" /\ calls = <<>>)
        /\ (inv.cmd = "components update" /\ inv.args.state.value = PyStr(<<>>)) =>
              /\ outcome = "ok"
              /\ Len(calls) = 1
              /\ "state" \notin DOMAIN PayloadOf(calls[1]).v

C9_Witness ==
    /\ Returned("components update")
    /\ inv.args.state.value = PyStr(<<"[", ",", "]">>)
    /\ outcome = "JSONDecodeError"
    /\ calls = <<>>

\* C10: configurations update with --file unset and --update-branches set
\* invokes the patch callback once, with the configuration id and with every
\* option other than file and update_branches, unchanged; the update callback
\* is not invoked.
C10_UpdateBranchesPatches ==
    (/\ Returned("configurations update")
     /\ inv.args.file.value = PyNone
     /\ inv.args.update_branches.value = PyBool(TRUE))
    => /\ outcome = "ok"
       /\ calls = <<Call("patch", [configuration_id |-> inv.args.configuration_id],
                         inv.args.kwargs)>>
       /\ DOMAIN inv.args.kwargs =
             ParamNames(cli.configurations.update)
                \ {"configuration_id", "file", "update_branches"}
       /\ \A k \in DOMAIN inv.args.kwargs : ~startswith_(k, "layers")

C10_Witness ==
    /\ Returned("configurations update")
    /\ inv.args.file.value = PyNone
    /\ inv.args.update_branches.value = PyBool(TRUE)
    /\ inv.args.kwargs["format"].value = PyStr(<<"x">>)
    /\ Len(calls) = 1
    /\ calls[1].callback = "patch"
    /\ calls[1].named.configuration_id = PyStr(<<"id2">>)
====
